---------------------------- MODULE Spec2Model ----------------------------
(***************************************************************************)
(* Model of the Python RAG client: ConfigurationService                    *)
(* (configuration_service.py), CitationParser and Citation                 *)
(* (citation_parser.py) and the orchestrator main / send_query_async       *)
(* (program.py).                                                           *)
(*                                                                         *)
(* Python str values that the code only tests for emptiness and copies     *)
(* (configuration values) are TLA+ strings.  Python str values that the    *)
(* code measures, slices, concatenates or parses (citation text, JSON      *)
(* text) are sequences of one-character strings.                           *)
(***************************************************************************)
EXTENDS Integers, Sequences, FiniteSets, TLC

VARIABLES
    pc,             \* position of the running operation
    settings,       \* ConfigurationService._config (config_dict or {})
    environ,        \* os.environ
    config,         \* the RagConfiguration under load / validation
    validation,     \* the (is_valid, missing_settings) tuple returned
    response_text,  \* the json_response argument of parse_citations
    document,       \* the Python object response_text was serialised from
    input_kind,     \* "none", "empty", "malformed" or "document"
    caller_frames,  \* the frames on the stack of parse_citations' caller
    parse_result,   \* what parse_citations returned or raised
    citation,       \* the Citation given to format_citation / display_title
    number,         \* the ordinal given to format_citation
    content_arg,    \* the content given to truncate_content
    max_length,     \* the max_length given to truncate_content
    text_result,    \* the str returned by the formatting operation
    argv,           \* sys.argv[1:]
    data_source,    \* main's data_source
    conversation_history,   \* main's conversation_history
    query,          \* the question main has read
    requests,       \* the chat requests sent to the endpoint so far
    output,         \* the calls of print so far
    response,       \* choices[0].message of the last response, None if none
    asked           \* the number of questions read at the prompt

configVars == <<settings, environ, config, validation>>
parseVars == <<response_text, document, input_kind, caller_frames,
      parse_result>>
formatVars == <<citation, number, content_arg, max_length, text_result>>
mainVars ==
    <<argv, data_source, conversation_history, query, requests, output,
      response, asked>>
vars == <<pc, configVars, parseVars, formatVars, mainVars>>

(***************************************************************************)
(* configuration_service.py                                                *)
(***************************************************************************)

\* The keys load_configuration passes to _get_config_value.
SettingsKeys ==
    {"AzureOpenAI:Endpoint", "AzureOpenAI:ChatDeployment",
     "AzureSearch:Endpoint", "AzureSearch:IndexName", "AzureSearch:ApiKey"}

\* Environment variable names a process environment may define here; the
\* last one is never read by the code.
EnvKeys ==
    {"AZURE_OPENAI_ENDPOINT", "AZURE_SEARCH_ENDPOINT",
     "AZURE_SEARCH_INDEX_NAME", "AZURE_SEARCH_API_KEY",
     "AZURE_OPENAI_CHAT_DEPLOYMENT"}

\* Python None, where the code passes None for an environment key.
None == "<None>"

\* dict.get(key, "") / os.environ.get(key, "") on a str -> str mapping.
DictGet(d, key, default) == IF key \in DOMAIN d THEN d[key] ELSE default

\* Truth value of a Python str.
StrTruthy(s) == s # ""

\* RagConfiguration(): the dataclass with its field defaults.
RagConfiguration ==
    [azure_openai_endpoint |-> "",
     chat_deployment       |-> "gpt-4",
     search_endpoint       |-> "",
     search_index          |-> "",
     search_api_key        |-> ""]

\* ConfigurationService._get_config_value, reading the env from the wrong
\* tier first (environment before the config dictionary).
GetConfigValueEnvFirst(cfg, env, config_key, env_var_key, default) ==
    LET e == IF env_var_key # None THEN DictGet(env, env_var_key, "") ELSE ""
        value == DictGet(cfg, config_key, "")
    IN  IF StrTruthy(e) THEN e
        ELSE IF StrTruthy(value) THEN value
        ELSE default

\* ConfigurationService._get_config_value(config_key, env_var_key, default)
\* with self._config = cfg and os.environ = env.
GetConfigValue(cfg, env, config_key, env_var_key, default) ==
    LET value == DictGet(cfg, config_key, "")
    IN  IF StrTruthy(value) THEN value
        ELSE IF env_var_key # None /\ StrTruthy(DictGet(env, env_var_key, ""))
             THEN DictGet(env, env_var_key, "")
        ELSE default

\* ConfigurationService.load_configuration with self._config = cfg.
LoadConfiguration(cfg, env) ==
    [azure_openai_endpoint |->
        GetConfigValue(cfg, env, "AzureOpenAI:Endpoint",
                       "AZURE_OPENAI_ENDPOINT", ""),
     chat_deployment |->
        GetConfigValue(cfg, env, "AzureOpenAI:ChatDeployment", None, "gpt-4"),
     search_endpoint |->
        GetConfigValue(cfg, env, "AzureSearch:Endpoint",
                       "AZURE_SEARCH_ENDPOINT", ""),
     search_index |->
        GetConfigValue(cfg, env, "AzureSearch:IndexName",
                       "AZURE_SEARCH_INDEX_NAME", ""),
     search_api_key |->
        GetConfigValue(cfg, env, "AzureSearch:ApiKey",
                       "AZURE_SEARCH_API_KEY", "")]

\* missing_settings.append(name) when the field is empty.
AppendIfEmpty(missing, value, name) ==
    IF ~StrTruthy(value) THEN Append(missing, name) ELSE missing

\* validate_configuration that also requires the search API key.
ValidateConfigurationWithKey(c) ==
    LET m1 == AppendIfEmpty(<<>>, c.azure_openai_endpoint, "AZURE_OPENAI_ENDPOINT")
        m2 == AppendIfEmpty(m1, c.search_endpoint, "AZURE_SEARCH_ENDPOINT")
        m3 == AppendIfEmpty(m2, c.search_index, "AZURE_SEARCH_INDEX_NAME")
        m4 == AppendIfEmpty(m3, c.search_api_key, "AZURE_SEARCH_API_KEY")
    IN  [is_valid |-> Len(m4) = 0, missing |-> m4]

\* ConfigurationService.validate_configuration(config).
ValidateConfiguration(c) ==
    LET m1 == AppendIfEmpty(<<>>, c.azure_openai_endpoint, "AZURE_OPENAI_ENDPOINT")
        m2 == AppendIfEmpty(m1, c.search_endpoint, "AZURE_SEARCH_ENDPOINT")
        m3 == AppendIfEmpty(m2, c.search_index, "AZURE_SEARCH_INDEX_NAME")
    IN  [is_valid |-> Len(m3) = 0, missing |-> m3]

\* The tuple held before validate_configuration has returned.
NoValidation == [is_valid |-> FALSE, missing |-> <<>>]

(***************************************************************************)
(* Python objects.  Every object is a record of one shape:                 *)
(*   t  its type: "none", "bool", "int", "float", "str", "list", "dict",   *)
(*      or "object" for an object with attributes                          *)
(*   s  the characters of a str, the literal of an int or float,           *)
(*      <<"1">> / <<>> for True / False                                    *)
(*   k  the keys of a dict, in insertion order (each a sequence of chars), *)
(*      or the attribute names of an object                                *)
(*   v  the items of a list, or the values of a dict / an object, in the   *)
(*      order of k                                                         *)
(***************************************************************************)

PyNone == [t |-> "none", s |-> <<>>, k |-> <<>>, v |-> <<>>]
PyStr(chars) == [t |-> "str", s |-> chars, k |-> <<>>, v |-> <<>>]
PyInt(literal) == [t |-> "int", s |-> literal, k |-> <<>>, v |-> <<>>]
PyFloat(literal) == [t |-> "float", s |-> literal, k |-> <<>>, v |-> <<>>]
PyBool(b) ==
    [t |-> "bool", s |-> IF b THEN <<"1">> ELSE <<>>, k |-> <<>>, v |-> <<>>]
PyList(items) == [t |-> "list", s |-> <<>>, k |-> <<>>, v |-> items]
PyDict(keys, values) == [t |-> "dict", s |-> <<>>, k |-> keys, v |-> values]

\* Whether a numeric literal denotes zero: no digit of its mantissa is
\* non-zero.
RECURSIVE MantissaIsZero(_, _)
MantissaIsZero(literal, i) ==
    IF i > Len(literal) \/ literal[i] \in {"e", "E"} THEN TRUE
    ELSE IF literal[i] \in {"1", "2", "3", "4", "5", "6", "7", "8", "9"} THEN FALSE
    ELSE MantissaIsZero(literal, i + 1)

\* The value of a decimal digit.
DigitValue(c) ==
    CHOOSE n \in 0..9 :
        <<"0", "1", "2", "3", "4", "5", "6", "7", "8", "9">>[n + 1] = c

\* The digits of the mantissa of a numeric literal: what stands between the
\* sign and the exponent.
MantissaOf(literal) ==
    LET start == IF literal[1] = "-" THEN 2 ELSE 1
        stop == IF \E i \in 1..Len(literal) : literal[i] \in {"e", "E"}
                THEN (CHOOSE i \in 1..Len(literal) : literal[i] \in {"e", "E"}) - 1
                ELSE Len(literal)
    IN  SubSeq(literal, start, stop)

\* The digits of the exponent of a float literal, without its sign.
ExponentOf(literal) ==
    LET e == CHOOSE i \in 1..Len(literal) : literal[i] \in {"e", "E"}
    IN  IF literal[e + 1] = "-" THEN SubSeq(literal, e + 2, Len(literal))
        ELSE SubSeq(literal, e + 1, Len(literal))

\* Whether the exponent of a float literal is negative.
ExponentIsNegative(literal) ==
    LET e == CHOOSE i \in 1..Len(literal) : literal[i] \in {"e", "E"}
    IN  literal[e + 1] = "-"

\* digits without its leading zeros; empty for zero.
RECURSIVE StripZeros(_)
StripZeros(digits) ==
    IF digits # <<>> /\ Head(digits) = "0" THEN StripZeros(Tail(digits))
    ELSE digits

\* The decimal digits of n >= 0, empty for zero.
RECURSIVE DigitsOf(_)
DigitsOf(n) ==
    IF n = 0 THEN <<>>
    ELSE DigitsOf(n \div 10)
             \o << <<"0", "1", "2", "3", "4", "5", "6", "7", "8", "9">>[(n % 10) + 1] >>

\* The significant digits of 2^-1075 = 5^1075 / 10^1075, half the smallest
\* positive float: 2.4703...e-324.  float() rounds to nearest, ties to even,
\* so a literal denotes 0.0 exactly when its value is at most this.
HalfSmallestFloat ==
    <<"2", "4", "7", "0", "3", "2", "8", "2", "2", "9", "2", "0", "6", "2",
      "3", "2", "7", "2", "0", "8", "8", "2", "8", "4", "3", "9", "6", "4",
      "3", "4", "1", "1", "0", "6", "8", "6", "1", "8", "2", "5", "2", "9",
      "9", "0", "1", "3", "0", "7", "1", "6", "2", "3", "8", "2", "2", "1",
      "2", "7", "9", "2", "8", "4", "1", "2", "5", "0", "3", "3", "7", "7",
      "5", "3", "6", "3", "5", "1", "0", "4", "3", "7", "5", "9", "3", "2",
      "6", "4", "9", "9", "1", "8", "1", "8", "0", "8", "1", "7", "9", "9",
      "6", "1", "8", "9", "8", "9", "8", "2", "8", "2", "3", "4", "7", "7",
      "2", "2", "8", "5", "8", "8", "6", "5", "4", "6", "3", "3", "2", "8",
      "3", "5", "5", "1", "7", "7", "9", "6", "9", "8", "9", "8", "1", "9",
      "9", "3", "8", "7", "3", "9", "8", "0", "0", "5", "3", "9", "0", "9",
      "3", "9", "0", "6", "3", "1", "5", "0", "3", "5", "6", "5", "9", "5",
      "1", "5", "5", "7", "0", "2", "2", "6", "3", "9", "2", "2", "9", "0",
      "8", "5", "8", "3", "9", "2", "4", "4", "9", "1", "0", "5", "1", "8",
      "4", "4", "3", "5", "9", "3", "1", "8", "0", "2", "8", "4", "9", "9",
      "3", "6", "5", "3", "6", "1", "5", "2", "5", "0", "0", "3", "1", "9",
      "3", "7", "0", "4", "5", "7", "6", "7", "8", "2", "4", "9", "2", "1",
      "9", "3", "6", "5", "6", "2", "3", "6", "6", "9", "8", "6", "3", "6",
      "5", "8", "4", "8", "0", "7", "5", "7", "0", "0", "1", "5", "8", "5",
      "7", "6", "9", "2", "6", "9", "9", "0", "3", "7", "0", "6", "3", "1",
      "1", "9", "2", "8", "2", "7", "9", "5", "5", "8", "5", "5", "1", "3",
      "3", "2", "9", "2", "7", "8", "3", "4", "3", "3", "8", "4", "0", "9",
      "3", "5", "1", "9", "7", "8", "0", "1", "5", "5", "3", "1", "2", "4",
      "6", "5", "9", "7", "2", "6", "3", "5", "7", "9", "5", "7", "4", "6",
      "2", "2", "7", "6", "6", "4", "6", "5", "2", "7", "2", "8", "2", "7",
      "2", "2", "0", "0", "5", "6", "3", "7", "4", "0", "0", "6", "4", "8",
      "5", "4", "9", "9", "9", "7", "7", "0", "9", "6", "5", "9", "9", "4",
      "7", "0", "4", "5", "4", "0", "2", "0", "8", "2", "8", "1", "6", "6",
      "2", "2", "6", "2", "3", "7", "8", "5", "7", "3", "9", "3", "4", "5",
      "0", "7", "3", "6", "3", "3", "9", "0", "0", "7", "9", "6", "7", "7",
      "6", "1", "9", "3", "0", "5", "7", "7", "5", "0", "6", "7", "4", "0",
      "1", "7", "6", "3", "2", "4", "6", "7", "3", "6", "0", "0", "9", "6",
      "8", "9", "5", "1", "3", "4", "0", "5", "3", "5", "5", "3", "7", "4",
      "5", "8", "5", "1", "6", "6", "6", "1", "1", "3", "4", "2", "2", "3",
      "7", "6", "6", "6", "7", "8", "6", "0", "4", "1", "6", "2", "1", "5",
      "9", "6", "8", "0", "4", "6", "1", "9", "1", "4", "4", "6", "7", "2",
      "9", "1", "8", "4", "0", "3", "0", "0", "5", "3", "0", "0", "5", "7",
      "5", "3", "0", "8", "4", "9", "0", "4", "8", "7", "6", "5", "3", "9",
      "1", "7", "1", "1", "3", "8", "6", "5", "9", "1", "6", "4", "6", "2",
      "3", "9", "5", "2", "4", "9", "1", "2", "6", "2", "3", "6", "5", "3",
      "8", "8", "1", "8", "7", "9", "6", "3", "6", "2", "3", "9", "3", "7",
      "3", "2", "8", "0", "4", "2", "3", "8", "9", "1", "0", "1", "8", "6",
      "7", "2", "3", "4", "8", "4", "9", "7", "6", "6", "8", "2", "3", "5",
      "0", "8", "9", "8", "6", "3", "3", "8", "8", "5", "8", "7", "9", "2",
      "5", "6", "2", "8", "3", "0", "2", "7", "5", "5", "9", "9", "5", "6",
      "5", "7", "5", "2", "4", "4", "5", "5", "5", "0", "7", "2", "5", "5",
      "1", "8", "9", "3", "1", "3", "6", "9", "0", "8", "3", "6", "2", "5",
      "4", "7", "7", "9", "1", "8", "6", "9", "4", "8", "6", "6", "7", "9",
      "9", "4", "9", "6", "8", "3", "2", "4", "0", "4", "9", "7", "0", "5",
      "8", "2", "1", "0", "2", "8", "5", "1", "3", "1", "8", "5", "4", "5",
      "1", "3", "9", "6", "2", "1", "3", "8", "3", "7", "7", "2", "2", "8",
      "2", "6", "1", "4", "5", "4", "3", "7", "6", "9", "3", "4", "1", "2",
      "5", "3", "2", "0", "9", "8", "5", "9", "1", "3", "2", "7", "6", "6",
      "7", "2", "3", "6", "3", "2", "8", "1", "2", "5">>

\* The decimal exponent of the first digit of HalfSmallestFloat.
HalfSmallestExponent == (Len(HalfSmallestFloat) - 1) - 1075

\* Whether the digits a, read as d.ddd..., are at most the digits b read
\* the same way; the shorter one is continued with zeros.
RECURSIVE DigitsAtMost(_, _, _)
DigitsAtMost(a, b, i) ==
    IF i > Len(a) /\ i > Len(b) THEN TRUE
    ELSE LET x == IF i <= Len(a) THEN DigitValue(a[i]) ELSE 0
             y == IF i <= Len(b) THEN DigitValue(b[i]) ELSE 0
         IN  IF x < y THEN TRUE
             ELSE IF x > y THEN FALSE
             ELSE DigitsAtMost(a, b, i + 1)

\* Whether float(literal) is 0.0: the mantissa is zero, or the value is so
\* small that it rounds to zero.  The value is m * 10^-E for a mantissa m
\* of D digits; its first digit has the decimal exponent D - 1 - E, which
\* is compared with HalfSmallestExponent digit by digit, so that an
\* exponent of any length is read exactly.
FloatIsZero(literal) ==
    LET exponent == StripZeros(ExponentOf(literal))
        least == DigitsOf((Len(MantissaOf(literal)) - 1) - HalfSmallestExponent)
        above == \/ Len(exponent) > Len(least)
                 \/ Len(exponent) = Len(least) /\ exponent # least
                        /\ DigitsAtMost(least, exponent, 1)
    IN  \/ MantissaIsZero(literal, 1)
        \/ /\ ExponentIsNegative(literal)
           /\ \/ above
              \/ /\ exponent = least
                 /\ DigitsAtMost(MantissaOf(literal), HalfSmallestFloat, 1)

\* bool(x): the truth value Python's "not x" / "x or y" / "if x" use.
Truthy(x) ==
    CASE x.t = "none"  -> FALSE
      [] x.t = "bool"  -> x.s # <<>>
      [] x.t = "int"   -> ~MantissaIsZero(x.s, 1)
      [] x.t = "float" -> ~FloatIsZero(x.s)
      [] x.t = "str"   -> x.s # <<>>
      [] x.t = "list"  -> x.v # <<>>
      [] x.t = "dict"  -> x.v # <<>>
      [] x.t = "object" -> TRUE

\* The position of key in a dict's keys, 0 when it has none.
KeyIndex(d, key) ==
    IF \E i \in 1..Len(d.k) : d.k[i] = key
    THEN CHOOSE i \in 1..Len(d.k) : d.k[i] = key
    ELSE 0

\* d[key] = value on a dict: a present key keeps its place.
DictSet(d, key, value) ==
    IF KeyIndex(d, key) # 0
    THEN PyDict(d.k, [d.v EXCEPT ![KeyIndex(d, key)] = value])
    ELSE PyDict(Append(d.k, key), Append(d.v, value))

\* The outcome of evaluating an expression: a value, or a raised exception.
Value(x) == [exc |-> "", val |-> x]
Raise(name) == [exc |-> name, val |-> PyNone]

\* obj.get(key, default): an AttributeError on anything but a dict.
PyGet(obj, key, default) ==
    IF obj.t # "dict" THEN Raise("AttributeError")
    ELSE IF KeyIndex(obj, key) # 0 THEN Value(obj.v[KeyIndex(obj, key)])
    ELSE Value(default)

\* obj[0].
PyIndex0(obj) ==
    CASE obj.t = "list" ->
            IF obj.v = <<>> THEN Raise("IndexError") ELSE Value(obj.v[1])
      [] obj.t = "str" ->
            IF obj.s = <<>> THEN Raise("IndexError")
            ELSE Value(PyStr(<<obj.s[1]>>))
      [] obj.t = "dict" -> Raise("KeyError")   \* json keys are str, never 0
      [] OTHER -> Raise("TypeError")

\* The items "for x in obj" visits, as a list value.
PyIter(obj) ==
    CASE obj.t = "list" -> Value(obj.v)
      [] obj.t = "str"  -> Value([i \in 1..Len(obj.s) |-> PyStr(<<obj.s[i]>>)])
      [] obj.t = "dict" -> Value([i \in 1..Len(obj.k) |-> PyStr(obj.k[i])])
      [] OTHER -> Raise("TypeError")

(***************************************************************************)
(* json.loads on text over JsonChars (no backslash, no capital letter, no  *)
(* '.', no '+': string escapes, fractions, NaN and Infinity cannot occur)  *)
(* and json.dumps with its default separators.  json.loads is CPython      *)
(* 3.11's, with its C scanner and the interpreter's default limits: it     *)
(* raises ValueError for an integer of more than MaxIntDigits digits and   *)
(* RecursionError where the stack would pass RecursionLimit, which depends *)
(* on how deep the caller of parse_citations already is.                   *)
(***************************************************************************)

Digit == {"0", "1", "2", "3", "4", "5", "6", "7", "8", "9"}
Letter ==
    {"a", "b", "c", "d", "e", "f", "g", "h", "i", "j", "k", "l", "m", "n",
     "o", "p", "q", "r", "s", "t", "u", "v", "w", "x", "y", "z"}
Whitespace == {" ", "\t", "\n", "\r"}
JsonChars ==
    Digit \cup Letter \cup {" ", "{", "}", "[", "]", ":", ",", "\"", "-", "_", "/"}

\* sys.get_int_max_str_digits(): int() of a literal with more digits raises
\* ValueError.
MaxIntDigits == 4300

\* sys.getrecursionlimit(): the deepest the interpreter's stack may grow.
\* Every Python frame counts one, and so does every call of a built-in
\* type or method and every array or object the scanner is inside of.
RecursionLimit == 1000

\* What JSONDecodeError(msg, doc, pos) needs above the place that raises
\* it: the call of the class, the frame of its __init__ and the method
\* calls in it.
ErrorDepth == 3

\* The depth of the stack in json.loads, for a caller of parse_citations
\* that has frames frames on the stack: parse_citations, loads, decode,
\* raw_decode and the call of the scanner follow one another.
DecodeDepth(frames) == frames + 3
RawDecodeDepth(frames) == frames + 4
ScanDepth(frames) == frames + 5

\* A scanner result: the value and the index after it, or the exception
\* that ends the scan.
Scanned(x, end) == [ok |-> TRUE, val |-> x, end |-> end, exc |-> ""]
ScanRaise(exc) == [ok |-> FALSE, val |-> PyNone, end |-> 0, exc |-> exc]

\* raise StopIteration(idx): no value starts here.  raw_decode turns it into
\* JSONDecodeError("Expecting value").
ScanStop == ScanRaise("StopIteration")

\* JSONDecodeError raised at depth, or the RecursionError of building it
\* where the stack has no room left.
ErrorAt(depth) ==
    IF depth + ErrorDepth > RecursionLimit THEN "RecursionError"
    ELSE "JSONDecodeError"

\* raise_errmsg(msg, s, idx) in the scanner at depth.
ScanError(depth) == ScanRaise(ErrorAt(depth))

\* _w(s, i).end(): the first index at or after i that holds no whitespace.
RECURSIVE SkipWhitespace(_, _)
SkipWhitespace(s, i) ==
    IF i <= Len(s) /\ s[i] \in Whitespace THEN SkipWhitespace(s, i + 1) ELSE i

\* s[i:i+len(word)] == word
StartsWith(s, i, word) ==
    /\ i + Len(word) - 1 <= Len(s)
    /\ \A j \in 1..Len(word) : s[i + j - 1] = word[j]

\* The index of the quote closing the string that opens before i; 0 when
\* the string is unterminated or holds a control character.
RECURSIVE ClosingQuote(_, _)
ClosingQuote(s, i) ==
    IF i > Len(s) THEN 0
    ELSE IF s[i] = "\"" THEN i
    ELSE IF s[i] \in {"\t", "\n", "\r"} THEN 0
    ELSE ClosingQuote(s, i + 1)

\* scanstring(s, i) at depth: i is the index after the opening quote.
ScanString(s, i, depth) ==
    LET j == ClosingQuote(s, i)
    IN  IF j = 0 THEN ScanError(depth)
        ELSE Scanned(PyStr(SubSeq(s, i, j - 1)), j + 1)

\* The first index at or after i that holds none of chars; Len(s) + 1 when
\* there is none.
FirstNot(s, i, chars) ==
    LET rest == {j \in i..Len(s) : s[j] \notin chars}
    IN  IF rest = {} THEN Len(s) + 1
        ELSE CHOOSE j \in rest : \A k \in rest : j <= k

\* The index after the digits that start at i.
SkipDigits(s, i) == IF i > Len(s) THEN i ELSE FirstNot(s, i, Digit)

\* The number of opening brackets in a row from index i on.  The scanner
\* enters every one of them before it reads anything else.
OpenRun(s, i) == FirstNot(s, i, {"["}) - i

\* NUMBER_RE.match(s, i): -?(0|[1-9]\d*) then an optional exponent
\* [eE]-?\d+ ; an exponent makes a float, and int() refuses an integer of
\* more than MaxIntDigits digits.  Without a match no value starts at i.
ScanNumber(s, i) ==
    LET d == IF i <= Len(s) /\ s[i] = "-" THEN i + 1 ELSE i
        intEnd == IF d <= Len(s) /\ s[d] = "0" THEN d + 1 ELSE SkipDigits(s, d)
        x == IF intEnd + 1 <= Len(s) /\ s[intEnd + 1] = "-"
             THEN intEnd + 2 ELSE intEnd + 1
        hasExp == /\ intEnd <= Len(s) /\ s[intEnd] \in {"e", "E"}
                  /\ x <= Len(s) /\ s[x] \in Digit
        expEnd == SkipDigits(s, x)
    IN  IF intEnd = d THEN ScanStop
        ELSE IF hasExp THEN Scanned(PyFloat(SubSeq(s, i, expEnd - 1)), expEnd)
        ELSE IF intEnd - d > MaxIntDigits THEN ScanRaise("ValueError")
        ELSE Scanned(PyInt(SubSeq(s, i, intEnd - 1)), intEnd)

\* The element of a set of one element: TheOnly({e(x) : x \in {v}}) is
\* e(v), with v computed once.
TheOnly(S) == CHOOSE x \in S : TRUE

RECURSIVE ScanOnce(_, _, _), ScanMembers(_, _, _, _), ScanItems(_, _, _, _)

\* scan_once(s, i) with the stack at depth: the value that starts at index
\* i.  An array or an object is entered one deeper, and RecursionError is
\* raised where that passes RecursionLimit; a run of opening brackets that
\* leads there raises it at its start, since nothing else is read on the
\* way down.
ScanOnce(s, i, depth) ==
    IF i > Len(s) THEN ScanStop
    ELSE IF s[i] = "\"" THEN ScanString(s, i + 1, depth)
    ELSE IF s[i] = "{" THEN
        LET j == SkipWhitespace(s, i + 1)
        IN  IF depth + 1 > RecursionLimit THEN ScanRaise("RecursionError")
            ELSE IF j > Len(s) THEN ScanError(depth + 1)
            ELSE IF s[j] = "}" THEN Scanned(PyDict(<<>>, <<>>), j + 1)
            ELSE IF s[j] # "\"" THEN ScanError(depth + 1)
            ELSE ScanMembers(s, j + 1, PyDict(<<>>, <<>>), depth + 1)
    ELSE IF s[i] = "[" THEN
        LET j == SkipWhitespace(s, i + 1)
        IN  IF depth + OpenRun(s, i) > RecursionLimit
                THEN ScanRaise("RecursionError")
            ELSE IF j <= Len(s) /\ s[j] = "]" THEN Scanned(PyList(<<>>), j + 1)
            ELSE ScanItems(s, j, <<>>, depth + 1)
    ELSE IF StartsWith(s, i, <<"n", "u", "l", "l">>) THEN Scanned(PyNone, i + 4)
    ELSE IF StartsWith(s, i, <<"t", "r", "u", "e">>)
        THEN Scanned(PyBool(TRUE), i + 4)
    ELSE IF StartsWith(s, i, <<"f", "a", "l", "s", "e">>)
        THEN Scanned(PyBool(FALSE), i + 5)
    ELSE ScanNumber(s, i)

\* JSONObject's loop inside an object at depth: i is the index after the
\* opening quote of a key.  The value is scanned once, after the key and
\* the colon are read.
ScanMembers(s, i, acc, depth) ==
    LET key == ScanString(s, i, depth)
        colon == SkipWhitespace(s, key.end)
    IN  IF ~key.ok THEN key
        ELSE IF colon > Len(s) \/ s[colon] # ":" THEN ScanError(depth)
        ELSE TheOnly({
            LET next == SkipWhitespace(s, value.end)
                quote == SkipWhitespace(s, next + 1)
            IN  IF ~value.ok THEN value
                ELSE IF next > Len(s) THEN ScanError(depth)
                ELSE IF s[next] = "}"
                    THEN Scanned(DictSet(acc, key.val.s, value.val), next + 1)
                ELSE IF s[next] # "," THEN ScanError(depth)
                ELSE IF quote > Len(s) \/ s[quote] # "\"" THEN ScanError(depth)
                ELSE ScanMembers(s, quote + 1,
                                 DictSet(acc, key.val.s, value.val), depth)
            : value \in {ScanOnce(s, SkipWhitespace(s, colon + 1), depth)}})

\* JSONArray's loop inside an array at depth: i is the index of the next
\* item, which is scanned once.
ScanItems(s, i, acc, depth) ==
    TheOnly({
        LET next == SkipWhitespace(s, value.end)
        IN  IF ~value.ok THEN value
            ELSE IF next > Len(s) THEN ScanError(depth)
            ELSE IF s[next] = "]"
                THEN Scanned(PyList(Append(acc, value.val)), next + 1)
            ELSE IF s[next] # "," THEN ScanError(depth)
            ELSE ScanItems(s, SkipWhitespace(s, next + 1),
                           Append(acc, value.val), depth)
        : value \in {ScanOnce(s, i, depth)}})

\* json.loads(s) called by parse_citations, whose caller has frames frames
\* on the stack: the object, or the exception: JSONDecodeError (no value,
\* a malformed value, extra data), ValueError or RecursionError.
JsonLoads(s, frames) ==
    IF ScanDepth(frames) > RecursionLimit THEN Raise("RecursionError")
    ELSE TheOnly({
        IF r.exc = "StopIteration" THEN Raise(ErrorAt(RawDecodeDepth(frames)))
        ELSE IF ~r.ok THEN Raise(r.exc)
        ELSE IF SkipWhitespace(s, r.end) # Len(s) + 1
            THEN Raise(ErrorAt(DecodeDepth(frames)))
        ELSE Value(r.val)
        : r \in {ScanOnce(s, SkipWhitespace(s, 1), ScanDepth(frames))}})

\* The concatenation of the sequences parts[1], parts[2], ... separated by
\* sep.
RECURSIVE Join(_, _)
Join(parts, sep) ==
    IF parts = <<>> THEN <<>>
    ELSE IF Len(parts) = 1 THEN parts[1]
    ELSE parts[1] \o sep \o Join(Tail(parts), sep)

\* json.dumps(x) with the default separators ", " and ": ", of an object
\* that holds no float.
RECURSIVE JsonDumps(_)
JsonDumps(x) ==
    CASE x.t = "none"  -> <<"n", "u", "l", "l">>
      [] x.t = "bool"  -> IF x.s # <<>> THEN <<"t", "r", "u", "e">>
                          ELSE <<"f", "a", "l", "s", "e">>
      [] x.t = "int"   -> x.s
      [] x.t = "str"   -> <<"\"">> \o x.s \o <<"\"">>
      [] x.t = "list"  ->
            <<"[">> \o Join([i \in 1..Len(x.v) |-> JsonDumps(x.v[i])],
                            <<",", " ">>) \o <<"]">>
      [] x.t = "dict"  ->
            <<"{">> \o Join([i \in 1..Len(x.k) |->
                                <<"\"">> \o x.k[i] \o <<"\"", ":", " ">>
                                    \o JsonDumps(x.v[i])],
                            <<",", " ">>) \o <<"}">>

(***************************************************************************)
(* citation_parser.py                                                      *)
(***************************************************************************)

\* The str literals of citation_parser.py, as character sequences.
ChoicesKey == <<"c", "h", "o", "i", "c", "e", "s">>
MessageKey == <<"m", "e", "s", "s", "a", "g", "e">>
ContextKey == <<"c", "o", "n", "t", "e", "x", "t">>
CitationsKey == <<"c", "i", "t", "a", "t", "i", "o", "n", "s">>
TitleKey == <<"t", "i", "t", "l", "e">>
FilepathKey == <<"f", "i", "l", "e", "p", "a", "t", "h">>
ContentKey == <<"c", "o", "n", "t", "e", "n", "t">>
UnknownDocument ==
    <<"U", "n", "k", "n", "o", "w", "n", " ", "D", "o", "c", "u", "m", "e", "n", "t">>
DocumentPrefix == <<"D", "o", "c", "u", "m", "e", "n", "t", " ">>
Ellipsis == <<".", ".", ".">>

\* The default of truncate_content's max_length parameter.
DefaultMaxLength == 150

\* Citation(title=..., file_path=..., content=...): the dataclass.
Citation(title, file_path, content) ==
    [title |-> title, file_path |-> file_path, content |-> content]

\* Python's "a or b".
PyOr(a, b) == IF Truthy(a) THEN a ELSE b

\* display_title that tests "is not None" instead of truth: an empty title
\* is shown.
DisplayTitleNotNone(c) ==
    IF c.title.t # "none" THEN c.title
    ELSE IF c.file_path.t # "none" THEN c.file_path
    ELSE PyStr(UnknownDocument)

\* Citation.display_title.
DisplayTitle(c) == PyOr(c.title, PyOr(c.file_path, PyStr(UnknownDocument)))

\* str(n) of an int n >= 0.
DigitChar(d) == <<"0", "1", "2", "3", "4", "5", "6", "7", "8", "9">>[d + 1]
RECURSIVE IntToStr(_)
IntToStr(n) ==
    IF n < 10 THEN <<DigitChar(n)>>
    ELSE IntToStr(n \div 10) \o <<DigitChar(n % 10)>>

\* What an f-string inserts for {x}.
PyFormat(x) ==
    CASE x.t = "str"  -> x.s
      [] x.t = "int"  -> x.s
      [] x.t = "none" -> <<"N", "o", "n", "e">>
      [] x.t = "bool" -> IF x.s # <<>> THEN <<"T", "r", "u", "e">>
                         ELSE <<"F", "a", "l", "s", "e">>

\* s[:n] of a str.
SlicePrefix(s, n) ==
    IF n >= 0 THEN SubSeq(s, 1, IF n < Len(s) THEN n ELSE Len(s))
    ELSE SubSeq(s, 1, IF Len(s) + n > 0 THEN Len(s) + n ELSE 0)

\* truncate_content comparing with "<": content of exactly max_length
\* characters is cut.
TruncateContentStrict(c, max_len) ==
    IF ~Truthy(c) THEN PyStr(<<>>)
    ELSE IF Len(c.s) < max_len THEN c
    ELSE PyStr(SlicePrefix(c.s, max_len) \o Ellipsis)

\* CitationParser.truncate_content(content, max_length).
TruncateContent(c, max_len) ==
    IF ~Truthy(c) THEN PyStr(<<>>)
    ELSE IF Len(c.s) <= max_len THEN c
    ELSE PyStr(SlicePrefix(c.s, max_len) \o Ellipsis)

\* format_citation that takes its title from Citation.display_title.
FormatCitationByProperty(c, n) ==
    LET first == <<" ", " ", "[">> \o IntToStr(n) \o <<"]", " ">>
                     \o PyFormat(DisplayTitle(c))
    IN  IF Truthy(c.content)
        THEN PyStr(first \o <<"\n", " ", " ", " ", " ", " ", " ">>
                       \o TruncateContent(c.content, DefaultMaxLength).s)
        ELSE PyStr(first)

\* CitationParser.format_citation(citation, number).
FormatCitation(c, n) ==
    LET display_title ==
            PyOr(c.title, PyOr(c.file_path, PyStr(DocumentPrefix \o IntToStr(n))))
        first == <<" ", " ", "[">> \o IntToStr(n) \o <<"]", " ">>
                     \o PyFormat(display_title)
    IN  IF Truthy(c.content)
        THEN PyStr(first \o <<"\n", " ", " ", " ", " ", " ", " ">>
                       \o TruncateContent(c.content, DefaultMaxLength).s)
        ELSE PyStr(first)

\* except (json.JSONDecodeError, KeyError, IndexError)
Caught(exc) == exc \in {"JSONDecodeError", "KeyError", "IndexError"}

\* The outcome of a block of statements: the exception that left it ("" for
\* none) and the citations list as it stands.
Outcome(exc, citations) == [exc |-> exc, citations |-> citations]

\* The body of the for loop for one element: the Citation it appends, or
\* the exception of element.get.
ElementCitation(element) ==
    LET title == PyGet(element, TitleKey, PyNone)
        file_path == PyGet(element, FilepathKey, PyNone)
        text == PyGet(element, ContentKey, PyNone)
    IN  IF title.exc # "" THEN Outcome(title.exc, <<>>)
        ELSE Outcome("", <<Citation(title.val, file_path.val, text.val)>>)

\* for citation_element in citations_array: ... citations.append(citation)
RECURSIVE AppendCitations(_, _, _)
AppendCitations(items, i, citations) ==
    IF i > Len(items) THEN Outcome("", citations)
    ELSE LET one == ElementCitation(items[i])
         IN  IF one.exc # "" THEN Outcome(one.exc, citations)
             ELSE AppendCitations(items, i + 1, citations \o one.citations)

\* The try block of parse_citations.
TryBlock(json_response, frames) ==
    LET data == JsonLoads(json_response.s, frames)
        choices == PyGet(data.val, ChoicesKey, PyList(<<>>))
        first_choice == PyIndex0(choices.val)
        message == PyGet(first_choice.val, MessageKey, PyDict(<<>>, <<>>))
        context == PyGet(message.val, ContextKey, PyDict(<<>>, <<>>))
        citations_array == PyGet(context.val, CitationsKey, PyList(<<>>))
        elements == PyIter(citations_array.val)
    IN  IF data.exc # "" THEN Outcome(data.exc, <<>>)
        ELSE IF choices.exc # "" THEN Outcome(choices.exc, <<>>)
        ELSE IF ~Truthy(choices.val) THEN Outcome("", <<>>)
        ELSE IF first_choice.exc # "" THEN Outcome(first_choice.exc, <<>>)
        ELSE IF message.exc # "" THEN Outcome(message.exc, <<>>)
        ELSE IF context.exc # "" THEN Outcome(context.exc, <<>>)
        ELSE IF citations_array.exc # "" THEN Outcome(citations_array.exc, <<>>)
        ELSE IF elements.exc # "" THEN Outcome(elements.exc, <<>>)
        ELSE AppendCitations(elements.val, 1, <<>>)

\* What a call of parse_citations ends with: the list it returns, or the
\* exception it raises.
Returns(citations) == [raised |-> "", citations |-> citations]
Raises(exc) == [raised |-> exc, citations |-> <<>>]

\* CitationParser.parse_citations(json_response), called with frames frames
\* on the stack (1 at the top level of a script, fewer than
\* RecursionLimit).
ParseCitations(json_response, frames) ==
    IF ~Truthy(json_response) THEN Returns(<<>>)
    ELSE LET block == TryBlock(json_response, frames)
         IN  IF block.exc = "" \/ Caught(block.exc)
             THEN Returns(block.citations)
             ELSE Raises(block.exc)

(***************************************************************************)
(* program.py                                                              *)
(***************************************************************************)

\* An object of the client library: attribute names and their values.
PyObject(names, values) == [t |-> "object", s |-> <<>>, k |-> names, v |-> values]

\* hasattr(obj, name)
HasAttr(obj, name) == obj.t = "object" /\ KeyIndex(obj, name) # 0

\* getattr(obj, name, None)
GetAttr(obj, name) ==
    IF HasAttr(obj, name) THEN obj.v[KeyIndex(obj, name)] ELSE PyNone

\* str.lower() on ASCII text.
UpperLetters ==
    <<"A", "B", "C", "D", "E", "F", "G", "H", "I", "J", "K", "L", "M", "N",
      "O", "P", "Q", "R", "S", "T", "U", "V", "W", "X", "Y", "Z">>
LowerLetters ==
    <<"a", "b", "c", "d", "e", "f", "g", "h", "i", "j", "k", "l", "m", "n",
      "o", "p", "q", "r", "s", "t", "u", "v", "w", "x", "y", "z">>
LowerChar(c) ==
    IF \E i \in 1..26 : UpperLetters[i] = c
    THEN LowerLetters[CHOOSE i \in 1..26 : UpperLetters[i] = c]
    ELSE c
StrLower(s) == [i \in 1..Len(s) |-> LowerChar(s[i])]

\* The content of the system message main starts the history with.
SystemPrompt ==
    <<"Y", "o", "u", " ", "a", "r", "e", " ", "a", " ", "h", "e", "l", "p",
      "f", "u", "l", " ", "N", "o", "r", "t", "h", "w", "i", "n", "d", " ",
      "H", "e", "a", "l", "t", "h", " ", "i", "n", "s", "u", "r", "a", "n",
      "c", "e", " ", "a", "s", "s", "i", "s", "t", "a", "n", "t", ".", " ",
      "A", "n", "s", "w", "e", "r", " ", "q", "u", "e", "s", "t", "i", "o",
      "n", "s", " ", "a", "b", "o", "u", "t", " ", "h", "e", "a", "l", "t",
      "h", " ", "p", "l", "a", "n", "s", ",", " ", "c", "o", "v", "e", "r",
      "a", "g", "e", ",", " ", "b", "e", "n", "e", "f", "i", "t", "s", ",",
      " ", "a", "n", "d", " ", "p", "o", "l", "i", "c", "i", "e", "s", " ",
      "b", "a", "s", "e", "d", " ", "o", "n", " ", "t", "h", "e", " ", "p",
      "r", "o", "v", "i", "d", "e", "d", " ", "d", "o", "c", "u", "m", "e",
      "n", "t", "s", ".", " ", "B", "e", " ", "a", "c", "c", "u", "r", "a",
      "t", "e", ",", " ", "h", "e", "l", "p", "f", "u", "l", ",", " ", "a",
      "n", "d", " ", "c", "i", "t", "e", " ", "y", "o", "u", "r", " ", "s",
      "o", "u", "r", "c", "e", "s", ".">>

\* The content of the connection test's message.
HelloPrompt ==
    <<"S", "a", "y", " ", "h", "e", "l", "l", "o", " ", "i", "n", " ", "o",
      "n", "e", " ", "w", "o", "r", "d">>

\* One entry of the conversation history / of a request's messages.
ChatMessage(role, text) == [role |-> role, content |-> text]

\* search_auth of main.
SearchAuth(c) ==
    IF ~StrTruthy(c.search_api_key)
    THEN [type |-> "SystemAssignedManagedIdentity"]
    ELSE [type |-> "ApiKey", key |-> c.search_api_key]

\* data_source of main.
DataSource(c) ==
    [type |-> "azure_search",
     parameters |-> [endpoint |-> c.search_endpoint,
                     index_name |-> c.search_index,
                     authentication |-> SearchAuth(c)]]

\* data_source before main has built it.
NoDataSource == [type |-> "unset"]

\* A call of client.chat.completions.create as the endpoint receives it.
ChatRequest(endpoint, deployment, messages, data_sources) ==
    [azure_endpoint |-> endpoint, model |-> deployment,
     messages |-> messages, data_sources |-> data_sources]

\* One call of print: what it announces, the text it prints where the text
\* is data, and the setting or exception it names.
Printed(kind, text, name) == [kind |-> kind, text |-> text, name |-> name]

\* " ".join(sys.argv[1:])
JoinArgs(args) == Join(args, <<" ">>)

\* The prints of "for setting in missing_settings".
MissingLines(missing) ==
    [i \in 1..Len(missing) |-> Printed("missing", <<>>, missing[i])]

\* The citation loop with a title fallback that skips the file path.
RECURSIVE CitationLinesNoFilepath(_, _)
CitationLinesNoFilepath(items, i) ==
    IF i > Len(items) THEN <<>>
    ELSE LET title == GetAttr(items[i], TitleKey)
             text == GetAttr(items[i], ContentKey)
             display_title == PyOr(title, PyStr(DocumentPrefix \o IntToStr(i)))
             first == Printed("line",
                              <<" ", " ", "[">> \o IntToStr(i) \o <<"]", " ">>
                                  \o PyFormat(display_title), "")
             second ==
                 IF Truthy(text)
                 THEN <<Printed("line",
                                <<" ", " ", " ", " ", " ", " ">>
                                    \o TruncateContent(text, DefaultMaxLength).s,
                                "")>>
                 ELSE <<>>
         IN  <<first>> \o second \o CitationLinesNoFilepath(items, i + 1)

\* The prints of the citation loop of send_query_async for the items from
\* the i-th on; the loop ends silently at an exception.
RECURSIVE CitationLines(_, _)
CitationLines(items, i) ==
    IF i > Len(items) THEN <<>>
    ELSE LET title == GetAttr(items[i], TitleKey)
             filepath == GetAttr(items[i], FilepathKey)
             text == GetAttr(items[i], ContentKey)
             display_title ==
                 PyOr(title, PyOr(filepath, PyStr(DocumentPrefix \o IntToStr(i))))
             first == Printed("line",
                              <<" ", " ", "[">> \o IntToStr(i) \o <<"]", " ">>
                                  \o PyFormat(display_title), "")
             second ==
                 IF Truthy(text)
                 THEN <<Printed("line",
                                <<" ", " ", " ", " ", " ", " ">>
                                    \o TruncateContent(text, DefaultMaxLength).s,
                                "")>>
                 ELSE <<>>
         IN  <<first>> \o second \o CitationLines(items, i + 1)

\* The prints of the "Extract and display citations" block for a message.
CitationsDisplay(message) ==
    IF ~HasAttr(message, ContextKey) THEN <<>>
    ELSE LET context == GetAttr(message, ContextKey)
         IN  IF ~(Truthy(context) /\ HasAttr(context, CitationsKey)) THEN <<>>
             ELSE LET items == PyIter(GetAttr(context, CitationsKey))
                  IN  IF items.exc # "" THEN <<Printed("citations", <<>>, "")>>
                      ELSE <<Printed("citations", <<>>, "")>>
                               \o CitationLines(items.val, 1)
                               \o <<Printed("blank", <<>>, "")>>

(***************************************************************************)
(* Inputs of the configuration service.                                    *)
(***************************************************************************)

\* Values a settings entry / an environment variable may hold.
SettingsValues == {"", "https://config.example"}
EnvValues == {"", "https://env.example"}
FieldValues == {"", "https://config.example", "https://env.example", "gpt-4"}

\* All mappings from a subset of keys to values.
PartialMaps(keys, values) == UNION {[D -> values] : D \in SUBSET keys}

(***************************************************************************)
(* Inputs of the citation parser.                                          *)
(***************************************************************************)

\* The most citations a generated response holds.
MaxCitations == 2
\* The largest ordinal given to format_citation.
MaxOrdinal == 11
\* The largest explicit max_length given to truncate_content.
MaxMaxLength == 4
\* Content lengths are taken up to this far on both sides of a max_length.
LengthSlack == 2
\* The most frames the caller of parse_citations has on the stack.
MaxCallerFrames == 2

\* Marks a key that is left out of a generated dict.
Absent == [t |-> "absent", s |-> <<>>, k |-> <<>>, v |-> <<>>]

\* The dict of the pairs <<key, value>> whose value is not Absent.
RECURSIVE DictOf(_)
DictOf(pairs) ==
    IF pairs = <<>> THEN PyDict(<<>>, <<>>)
    ELSE LET rest == DictOf(Tail(pairs))
         IN  IF Head(pairs)[2] = Absent THEN rest
             ELSE PyDict(<<Head(pairs)[1]>> \o rest.k, <<Head(pairs)[2]>> \o rest.v)

\* The citation elements of generated responses.
ElementDicts ==
    {DictOf(<< <<TitleKey, t>>, <<FilepathKey, f>>, <<ContentKey, c>> >>) :
        t \in {Absent, PyNone, PyStr(<<"P", "l", "a", "n">>)},
        f \in {Absent, PyStr(<<"d", "o", "c", "s", "/", "a">>)},
        c \in {Absent, PyStr(<<"C", "o", "v", "e", "r">>)}}

\* The element of the second choice of a response.
OtherElement ==
    DictOf(<< <<TitleKey, PyStr(<<"O", "t", "h", "e", "r">>)>>,
              <<FilepathKey, PyStr(<<"d", "o", "c", "s", "/", "z">>)>>,
              <<ContentKey, PyStr(<<"z">>)>> >>)

\* A choice whose message holds an answer and the given citations value.
ChoiceWith(citations) ==
    DictOf(<< <<MessageKey,
                DictOf(<< <<ContentKey, PyStr(<<"T", "e", "s", "t">>)>>,
                          <<ContextKey,
                            DictOf(<< <<CitationsKey, citations>> >>)>> >>)>> >>)

\* A well-formed response: its first choice carries the citations list, a
\* second choice (when asked for) carries another one.
WellFormed(elements, second) ==
    DictOf(<< <<ChoicesKey,
                PyList(IF second
                       THEN <<ChoiceWith(PyList(elements)),
                              ChoiceWith(PyList(<<OtherElement>>))>>
                       ELSE <<ChoiceWith(PyList(elements))>>)>> >>)

ElementLists == UNION {[1..n -> ElementDicts] : n \in 0..MaxCitations}

WellFormedDocuments ==
    {WellFormed(l, second) : l \in ElementLists, second \in BOOLEAN}

\* The values put where another shape is expected.
Atoms ==
    {PyNone, PyStr(<<>>), PyStr(<<"a", "b">>), PyInt(<<"0">>), PyInt(<<"5">>),
     PyBool(TRUE), PyBool(FALSE), PyList(<<>>), PyList(<<PyNone>>),
     PyDict(<<>>, <<>>), PyDict(<< <<"a">> >>, <<PyInt(<<"1">>)>>)}

Levels ==
    {"top", "choices", "first", "message", "context", "citations",
     "element", "field"}

\* The response that is well-formed down to the level, where it holds x.
Nest(level, x) ==
    CASE level = "top" -> x
      [] level = "choices" -> DictOf(<< <<ChoicesKey, x>> >>)
      [] level = "first" -> DictOf(<< <<ChoicesKey, PyList(<<x>>)>> >>)
      [] level = "message" ->
            DictOf(<< <<ChoicesKey,
                        PyList(<<DictOf(<< <<MessageKey, x>> >>)>>)>> >>)
      [] level = "context" ->
            DictOf(<< <<ChoicesKey,
                        PyList(<<DictOf(<< <<MessageKey,
                            DictOf(<< <<ContextKey, x>> >>)>> >>)>>)>> >>)
      [] level = "citations" ->
            DictOf(<< <<ChoicesKey, PyList(<<ChoiceWith(x)>>)>> >>)
      [] level = "element" ->
            DictOf(<< <<ChoicesKey,
                        PyList(<<ChoiceWith(PyList(<<OtherElement, x>>))>>)>> >>)
      [] level = "field" ->
            DictOf(<< <<ChoicesKey,
                        PyList(<<ChoiceWith(PyList(
                            <<DictOf(<< <<TitleKey, x>> >>)>>))>>)>> >>)

NestedDocuments == {Nest(level, x) : level \in Levels, x \in Atoms}

\* The str of n characters c.
Repeat(c, n) == [i \in 1..n |-> c]

\* The text whose proper prefixes are given as malformed input.
SampleText == JsonDumps(WellFormed(<<OtherElement>>, FALSE))

MalformedTexts ==
    {SubSeq(SampleText, 1, n) : n \in 1..(Len(SampleText) - 1)}
    \cup {<<"n", "o", "t", " ", "v", "a", "l", "i", "d", " ", "j", "s", "o", "n">>,
          <<" ">>, <<"0", "1">>, <<"[", "1", ",", "]">>, <<"n", "u", "l", "l", "x">>,
          <<"{", "\"", "a", "\"", ":", "1", ",", "}">>, <<"1", "e">>, <<"-">>,
          <<"{", "}", "{", "}">>, <<"[", "\"", "a", "\n", "\"", "]">>,
          Repeat("[", RecursionLimit)}

\* The list of n lists nested in one another, [[...[]...]], kept as its
\* depth.
NestedList(n) == [t |-> "nested", s |-> <<>>, k |-> <<>>, v |-> <<n>>]

\* SampleText with one more member, "n", after choices.
SampleTextWith(member) ==
    SubSeq(SampleText, 1, Len(SampleText) - 1)
        \o <<",", " ", "\"", "n", "\"", ":", " ">> \o member \o <<"}">>

\* Responses with a citation that also hold an integer of more digits than
\* int() converts, or lists nested deeper than the stack of any caller
\* allows.
LimitTexts ==
    {[text |-> SampleTextWith(Repeat("1", MaxIntDigits + 1)),
      doc |-> DictSet(WellFormed(<<OtherElement>>, FALSE), <<"n">>,
                      PyInt(Repeat("1", MaxIntDigits + 1)))],
     [text |-> SampleTextWith(Repeat("[", RecursionLimit)
                                  \o Repeat("]", RecursionLimit)),
      doc |-> DictSet(WellFormed(<<OtherElement>>, FALSE), <<"n">>,
                      NestedList(RecursionLimit))]}

\* The depths of the stack parse_citations is called at: 1 is the top level
\* of a script.
CallerFrames == 1..MaxCallerFrames

\* Texts that json.dumps does not produce, with the object they denote.
WrittenTexts ==
    {[text |-> <<" ", "n", "u", "l", "l", " ">>, doc |-> PyNone],
     [text |-> <<"1", "e", "5">>, doc |-> PyFloat(<<"1", "e", "5">>)],
     [text |-> <<"-", "7">>, doc |-> PyInt(<<"-", "7">>)],
     [text |-> Repeat("1", MaxIntDigits + 1),
      doc |-> PyInt(Repeat("1", MaxIntDigits + 1))],
     [text |-> <<"{", "\"", "c", "h", "o", "i", "c", "e", "s", "\"", ":",
                 "[", "]", ",", "\"", "n", "\"", ":">>
                   \o Repeat("1", MaxIntDigits + 1) \o <<"}">>,
      doc |-> DictOf(<< <<ChoicesKey, PyList(<<>>)>>,
                        <<<<"n">>, PyInt(Repeat("1", MaxIntDigits + 1))>> >>)],
     [text |-> <<"{", "\"", "c", "h", "o", "i", "c", "e", "s", "\"", ":",
                 "1", "e", "-", "4", "0", "0", "}">>,
      doc |-> DictOf(<< <<ChoicesKey, PyFloat(<<"1", "e", "-", "4", "0", "0">>)>> >>)],
     [text |-> <<"{", "\"", "c", "h", "o", "i", "c", "e", "s", "\"", ":",
                 "3", "e", "-", "3", "2", "4", "}">>,
      doc |-> DictOf(<< <<ChoicesKey, PyFloat(<<"3", "e", "-", "3", "2", "4">>)>> >>)],
     [text |-> <<"{", "\"", "c", "h", "o", "i", "c", "e", "s", "\"", "\t", ":",
                 "\n", "[", " ", "]", "\r", "}">>,
      doc |-> DictOf(<< <<ChoicesKey, PyList(<<>>)>> >>)],
     [text |-> <<"{", "\"", "c", "h", "o", "i", "c", "e", "s", "\"", ":", "5",
                 ",", "\"", "c", "h", "o", "i", "c", "e", "s", "\"", ":", "[", "]",
                 "}">>,
      doc |-> DictOf(<< <<ChoicesKey, PyList(<<>>)>> >>)]}

ParseInputs ==
    {[kind |-> "none", text |-> PyNone, doc |-> PyNone],
     [kind |-> "empty", text |-> PyStr(<<>>), doc |-> PyNone]}
    \cup {[kind |-> "malformed", text |-> PyStr(m), doc |-> PyNone] :
            m \in MalformedTexts}
    \cup {[kind |-> "document", text |-> PyStr(w.text), doc |-> w.doc] :
            w \in WrittenTexts \cup LimitTexts}
    \cup {[kind |-> "document", text |-> PyStr(JsonDumps(d)), doc |-> d] :
            d \in WellFormedDocuments \cup NestedDocuments}

\* A str of n characters in which no two neighbours are equal.
PatternText(n) ==
    [i \in 1..n |-> <<"a", "b", "c", "d", "e", "f", "g">>[(i % 7) + 1]]

\* The lengths within LengthSlack of the default max_length.
LongLengths ==
    (DefaultMaxLength - LengthSlack)..(DefaultMaxLength + LengthSlack)

TitleValues == {PyNone, PyStr(<<>>), PyStr(<<"G", "u", "i", "d", "e">>)}
PathValues == {PyNone, PyStr(<<>>), PyStr(<<"a", ".", "p", "d", "f">>)}
ContentValues(lengths) ==
    {PyNone, PyStr(<<>>)} \cup {PyStr(PatternText(n)) : n \in lengths}

\* The max_length argument: <<>> when the caller omits it, <<n>> otherwise.
MaxLengthArgs ==
    {<<>>, <<DefaultMaxLength>>} \cup {<<n>> : n \in 1..MaxMaxLength}

\* The value of the max_length parameter for an argument.
MaxLengthOf(arg) == IF arg = <<>> THEN DefaultMaxLength ELSE arg[1]

(***************************************************************************)
(* The values of the variables an operation does not use.                  *)
(***************************************************************************)

IdleConfig ==
    /\ settings = <<>>
    /\ environ = <<>>
    /\ config = RagConfiguration
    /\ validation = NoValidation

IdleParse ==
    /\ response_text = PyNone
    /\ document = PyNone
    /\ input_kind = "none"
    /\ caller_frames = 1
    /\ parse_result = Returns(<<>>)

IdleFormat ==
    /\ citation = Citation(PyNone, PyNone, PyNone)
    /\ number = 1
    /\ content_arg = PyNone
    /\ max_length = <<>>
    /\ text_result = PyStr(<<>>)

(***************************************************************************)
(* Inputs of main: the process environment, the command line, what the     *)
(* user types and what the chat endpoint answers.                          *)
(***************************************************************************)

\* The most questions one run reads at the prompt.
MaxQuestions == 2

\* The value an environment variable holds when it is set.
MainValue(key) ==
    CASE key = "AZURE_OPENAI_ENDPOINT"   -> "https://openai.example"
      [] key = "AZURE_SEARCH_ENDPOINT"   -> "https://search.example"
      [] key = "AZURE_SEARCH_INDEX_NAME" -> "docs-index"
      [] key = "AZURE_SEARCH_API_KEY"    -> "search-key"

MainEnvironments ==
    {[k \in D |-> MainValue(k)] :
        D \in SUBSET {"AZURE_OPENAI_ENDPOINT", "AZURE_SEARCH_ENDPOINT",
                      "AZURE_SEARCH_INDEX_NAME", "AZURE_SEARCH_API_KEY"}}

\* sys.argv[1:]
CommandLines == {<<>>, << <<"q", "1">> >>, << <<"a">>, <<"b">> >>}

\* What input("Question: ") returns.
ExitInputs ==
    {<<>>, <<"e", "x", "i", "t">>, <<"E", "x", "i", "T">>}
QuestionInputs == {<<"q", "1">>, <<"e", "x", "i", "t", "s">>}

\* The citation objects of a response: one with every field, one with
\* nothing but a content longer than the default limit, one with an empty
\* title, a file path and an empty content.
ResponseCitations ==
    <<PyObject(<<TitleKey, FilepathKey, ContentKey>>,
               <<PyStr(<<"P", "l", "a", "n">>), PyStr(<<"a", ".", "p", "d", "f">>),
                 PyStr(<<"C", "o", "v", "e", "r">>)>>),
      PyObject(<<ContentKey>>, <<PyStr(PatternText(DefaultMaxLength + 2))>>),
      PyObject(<<TitleKey, FilepathKey, ContentKey>>,
               <<PyStr(<<>>), PyStr(<<"b", ".", "m", "d">>), PyStr(<<>>)>>)>>

\* The citation lists of a response: up to MaxCitations consecutive objects
\* of the cycle above, from any starting point.
ResponseCitationLists ==
    {[i \in 1..n |->
          ResponseCitations[((first + i - 2) % Len(ResponseCitations)) + 1]] :
        n \in 0..MaxCitations, first \in 1..Len(ResponseCitations)}

\* The context attribute of a response message (Absent: no attribute).
ResponseContexts ==
    {Absent, PyNone, PyObject(<<>>, <<>>), PyObject(<<CitationsKey>>, <<PyNone>>)}
    \cup {PyObject(<<CitationsKey>>, <<PyList(l)>>) : l \in ResponseCitationLists}

\* response.choices[0].message of a successful response.
ResponseMessages ==
    {IF c = Absent THEN PyObject(<<ContentKey>>, <<PyStr(<<"O", "K">>)>>)
     ELSE PyObject(<<ContentKey, ContextKey>>, <<PyStr(<<"O", "K">>), c>>) :
        c \in ResponseContexts}

(***************************************************************************)
(* main and send_query_async.                                              *)
(***************************************************************************)

IdleMain ==
    /\ argv = <<>>
    /\ data_source = NoDataSource
    /\ conversation_history = <<>>
    /\ query = <<>>
    /\ requests = <<>>
    /\ output = <<>>
    /\ response = PyNone
    /\ asked = 0

\* The process starts: ConfigurationService() has no config_dict.
Init ==
    /\ pc = "main_start"
    /\ settings = <<>>
    /\ environ \in MainEnvironments
    /\ config = RagConfiguration
    /\ validation = NoValidation
    /\ argv \in CommandLines
    /\ data_source = NoDataSource
    /\ conversation_history = <<>>
    /\ query = <<>>
    /\ requests = <<>>
    /\ output = <<>>
    /\ response = PyNone
    /\ asked = 0
    /\ IdleParse /\ IdleFormat

\* main, lines 27-31: the banner and load_configuration.
MainLoad ==
    /\ pc = "main_start"
    /\ output' = Append(output, Printed("banner", <<>>, ""))
    /\ config' = LoadConfiguration(settings, environ)
    /\ pc' = "main_loaded"
    /\ UNCHANGED <<settings, environ, validation, argv, data_source,
                   conversation_history, query, requests, asked,
                   response,
                   parseVars, formatVars>>

\* main without the return of line 39: an invalid configuration is listed
\* and main goes on.
MainValidateNoReturn ==
    /\ pc = "main_loaded"
    /\ validation' = ValidateConfiguration(config)
    /\ output' =
           IF ~validation'.is_valid
           THEN Append(output, Printed("configure", <<>>, ""))
                    \o MissingLines(validation'.missing)
           ELSE output
    /\ pc' = "main_valid"
    /\ UNCHANGED <<settings, environ, config, argv, data_source,
                   conversation_history, query, requests, asked,
                   response,
                   parseVars, formatVars>>

\* main, lines 33-39: validate_configuration; an invalid configuration is
\* listed and main returns.
MainValidate ==
    /\ pc = "main_loaded"
    /\ validation' = ValidateConfiguration(config)
    /\ IF ~validation'.is_valid
       THEN /\ output' = Append(output, Printed("configure", <<>>, ""))
                             \o MissingLines(validation'.missing)
            /\ pc' = "main_exit"
       ELSE /\ output' = output
            /\ pc' = "main_valid"
    /\ UNCHANGED <<settings, environ, config, argv, data_source,
                   conversation_history, query, requests, asked,
                   response,
                   parseVars, formatVars>>

\* main, lines 41-66: the data source and the conversation history.
MainSetup ==
    /\ pc = "main_valid"
    /\ data_source' = DataSource(config)
    /\ conversation_history' = <<ChatMessage("system", SystemPrompt)>>
    /\ pc' = "main_mode"
    /\ UNCHANGED <<configVars, argv, query, requests, output, asked,
                   response,
                   parseVars, formatVars>>

\* main, lines 69-89: a query on the command line; the connection test,
\* which may fail before or after its request is sent.
MainCliTest ==
    /\ pc = "main_mode"
    /\ argv # <<>>
    /\ query' = JoinArgs(argv)
    /\ \E result \in {"ok", "client_error", "request_error"} :
        /\ requests' =
            IF result = "client_error" THEN requests
            ELSE Append(requests,
                        ChatRequest(config.azure_openai_endpoint,
                                    config.chat_deployment,
                                    <<ChatMessage("user", HelloPrompt)>>, <<>>))
        /\ output' =
            output \o <<Printed("testing", <<>>, ""),
                        IF result = "ok" THEN Printed("connected", <<>>, "")
                        ELSE Printed("failed", <<>>, result)>>
        /\ pc' = IF result = "ok" THEN "cli_query" ELSE "main_exit"
    /\ UNCHANGED <<configVars, argv, data_source, conversation_history, asked,
                   response,
                   parseVars, formatVars>>

\* main, lines 91-101: the command-line query is handed to send_query_async.
MainCliQuery ==
    /\ pc = "cli_query"
    /\ output' = Append(output, Printed("starting", <<>>, ""))
    /\ pc' = "send_query"
    /\ UNCHANGED <<configVars, argv, data_source, conversation_history, query,
                   requests, asked, response,
                   parseVars, formatVars>>

\* main, line 104: interactive mode is announced.
MainReady ==
    /\ pc = "main_mode"
    /\ argv = <<>>
    /\ output' = Append(output, Printed("ready", <<>>, ""))
    /\ pc' = "prompt"
    /\ UNCHANGED <<configVars, argv, data_source, conversation_history, query,
                   requests, asked, response,
                   parseVars, formatVars>>

\* main, lines 106-110 and 121: an empty input or "exit" ends the loop.
MainPromptExit ==
    /\ pc = "prompt"
    /\ \E typed \in ExitInputs \cup QuestionInputs :
        /\ ~Truthy(PyStr(typed)) \/ StrLower(typed) = <<"e", "x", "i", "t">>
        /\ query' = typed
    /\ output' = Append(output, Printed("goodbye", <<>>, ""))
    /\ pc' = "main_exit"
    /\ UNCHANGED <<configVars, argv, data_source, conversation_history,
                   requests, asked, response,
                   parseVars, formatVars>>

\* main, lines 106-119: any other input is handed to send_query_async.
MainPromptQuestion ==
    /\ pc = "prompt"
    /\ asked < MaxQuestions
    /\ \E typed \in ExitInputs \cup QuestionInputs :
        /\ ~(~Truthy(PyStr(typed)) \/ StrLower(typed) = <<"e", "x", "i", "t">>)
        /\ query' = typed
    /\ asked' = asked + 1
    /\ pc' = "send_query"
    /\ UNCHANGED <<configVars, argv, data_source, conversation_history,
                   requests, output, response,
                   parseVars, formatVars>>

\* Where send_query_async returns to: main returns after the command-line
\* query and loops in interactive mode.
AfterSend == IF argv # <<>> THEN "main_exit" ELSE "prompt"

\* The request send_query_async sends for the history it is given.
RagRequest(history) ==
    ChatRequest(config.azure_openai_endpoint, config.chat_deployment,
                history, <<data_source>>)

\* The exceptions send_query_async can catch from the client library, and
\* the __cause__ each may carry ("": none).  An IndexError of choices[0] is
\* raised by the indexing itself and has none.
CausesOf(raised) ==
    IF raised = "IndexError" THEN {""} ELSE {"", "OSError"}

\* The prints of the except block of send_query_async: the error, the
\* cause when the exception has one, and an empty line.
ErrorReport(raised, cause) ==
    <<Printed("error", <<>>, raised)>>
        \o (IF cause # "" THEN <<Printed("inner", <<>>, cause)>> ELSE <<>>)
        \o <<Printed("blank", <<>>, "")>>

\* send_query_async: the client cannot be created; nothing is sent.
SendQueryClientError ==
    /\ pc = "send_query"
    /\ conversation_history' =
           Append(conversation_history, ChatMessage("user", query))
    /\ \E cause \in CausesOf("client_error") :
        output' = output \o ErrorReport("client_error", cause)
    /\ response' = PyNone
    /\ pc' = AfterSend
    /\ UNCHANGED <<configVars, argv, data_source, query, requests, asked,
                   parseVars, formatVars>>

\* send_query_async that sends the request again when create() raises.
SendQueryRequestErrorRetried ==
    /\ pc = "send_query"
    /\ conversation_history' =
           Append(conversation_history, ChatMessage("user", query))
    /\ requests' = requests \o <<RagRequest(conversation_history'),
                                 RagRequest(conversation_history')>>
    /\ \E raised \in {"request_error", "IndexError"} :
        \E cause \in CausesOf(raised) :
            output' = output \o ErrorReport(raised, cause)
    /\ response' = PyNone
    /\ pc' = AfterSend
    /\ UNCHANGED <<configVars, argv, data_source, query, asked,
                   parseVars, formatVars>>

\* send_query_async: the request is sent and create() raises, or the
\* response has no choices and response.choices[0] raises.
SendQueryRequestError ==
    /\ pc = "send_query"
    /\ conversation_history' =
           Append(conversation_history, ChatMessage("user", query))
    /\ requests' = Append(requests, RagRequest(conversation_history'))
    /\ \E raised \in {"request_error", "IndexError"} :
        \E cause \in CausesOf(raised) :
            output' = output \o ErrorReport(raised, cause)
    /\ response' = PyNone
    /\ pc' = AfterSend
    /\ UNCHANGED <<configVars, argv, data_source, query, asked,
                   parseVars, formatVars>>

\* send_query_async that keeps only the latest exchange in the history.
SendQueryAnsweredTrimmed ==
    /\ pc = "send_query"
    /\ \E message \in ResponseMessages :
        /\ response' = message
        /\ requests' =
               Append(requests,
                      RagRequest(Append(conversation_history,
                                        ChatMessage("user", query))))
        /\ output' = output
               \o <<Printed("answer", GetAttr(message, ContentKey).s, "")>>
               \o CitationsDisplay(message)
        /\ conversation_history' =
               <<ChatMessage("system", SystemPrompt),
                 ChatMessage("user", query),
                 ChatMessage("assistant", GetAttr(message, ContentKey).s)>>
    /\ pc' = AfterSend
    /\ UNCHANGED <<configVars, argv, data_source, query, asked,
                   parseVars, formatVars>>

\* send_query_async: the request is answered; the answer and the citations
\* are printed and the answer joins the history.
SendQueryAnswered ==
    /\ pc = "send_query"
    /\ \E message \in ResponseMessages :
        /\ response' = message
        /\ requests' =
               Append(requests,
                      RagRequest(Append(conversation_history,
                                        ChatMessage("user", query))))
        /\ output' = output
               \o <<Printed("answer", GetAttr(message, ContentKey).s, "")>>
               \o CitationsDisplay(message)
        /\ conversation_history' =
               conversation_history
                   \o <<ChatMessage("user", query),
                        ChatMessage("assistant", GetAttr(message, ContentKey).s)>>
    /\ pc' = AfterSend
    /\ UNCHANGED <<configVars, argv, data_source, query, asked,
                   parseVars, formatVars>>

Next ==
    \/ MainLoad \/ MainValidate \/ MainSetup
    \/ MainCliTest \/ MainCliQuery
    \/ MainReady \/ MainPromptExit \/ MainPromptQuestion
    \/ SendQueryClientError \/ SendQueryRequestError \/ SendQueryAnswered

Spec == Init /\ [][Next]_vars

(***************************************************************************)
(* The citation parser driven as its tests drive it: one call of           *)
(* parse_citations, of format_citation, of Citation.display_title or of    *)
(* truncate_content on given arguments.                                    *)
(***************************************************************************)

InitParse ==
    /\ pc = "parse_ready"
    /\ \E input \in ParseInputs :
        /\ response_text = input.text
        /\ document = input.doc
        /\ input_kind = input.kind
    /\ caller_frames \in CallerFrames
    /\ parse_result = Returns(<<>>)
    /\ IdleConfig /\ IdleFormat /\ IdleMain

InitCitation ==
    /\ pc = "citation_ready"
    /\ citation \in
        {Citation(t, f, c) :
            t \in TitleValues, f \in PathValues,
            c \in ContentValues((1..LengthSlack) \cup LongLengths)}
    /\ number \in 1..MaxOrdinal
    /\ content_arg = PyNone
    /\ max_length = <<>>
    /\ text_result = PyStr(<<>>)
    /\ IdleConfig /\ IdleParse /\ IdleMain

InitTruncate ==
    /\ pc = "truncate_ready"
    /\ content_arg \in
        ContentValues((1..(MaxMaxLength + LengthSlack)) \cup LongLengths)
    /\ max_length \in MaxLengthArgs
    /\ citation = Citation(PyNone, PyNone, PyNone)
    /\ number = 1
    /\ text_result = PyStr(<<>>)
    /\ IdleConfig /\ IdleParse /\ IdleMain

DoParse ==
    /\ pc = "parse_ready"
    /\ parse_result' = ParseCitations(response_text, caller_frames)
    /\ pc' = "parse_done"
    /\ UNCHANGED <<response_text, document, input_kind, caller_frames, configVars,
                   formatVars, mainVars>>

DoFormat ==
    /\ pc = "citation_ready"
    /\ text_result' = FormatCitation(citation, number)
    /\ pc' = "format_done"
    /\ UNCHANGED <<citation, number, content_arg, max_length, configVars,
                   parseVars, mainVars>>

DoDisplayTitle ==
    /\ pc = "citation_ready"
    /\ text_result' = DisplayTitle(citation)
    /\ pc' = "title_done"
    /\ UNCHANGED <<citation, number, content_arg, max_length, configVars,
                   parseVars, mainVars>>

DoTruncate ==
    /\ pc = "truncate_ready"
    /\ text_result' = TruncateContent(content_arg, MaxLengthOf(max_length))
    /\ pc' = "truncate_done"
    /\ UNCHANGED <<citation, number, content_arg, max_length, configVars,
                   parseVars, mainVars>>

InitCitations == InitParse \/ InitCitation \/ InitTruncate
NextCitations == DoParse \/ DoFormat \/ DoDisplayTitle \/ DoTruncate
SpecCitations == InitCitations /\ [][NextCitations]_vars

(***************************************************************************)
(* The configuration service driven as its tests drive it: a service is    *)
(* constructed with a config_dict under a process environment and          *)
(* load_configuration is called; validate_configuration is called on a     *)
(* RagConfiguration.                                                       *)
(***************************************************************************)

InitLoad ==
    /\ pc = "load_ready"
    /\ settings \in PartialMaps(SettingsKeys, SettingsValues)
    /\ environ \in PartialMaps(EnvKeys, EnvValues)
    /\ config = RagConfiguration
    /\ validation = NoValidation
    /\ IdleParse /\ IdleFormat /\ IdleMain

InitValidate ==
    /\ pc = "validate_ready"
    /\ settings = <<>>
    /\ environ = <<>>
    /\ config \in [azure_openai_endpoint : {"", "https://env.example"},
                   chat_deployment : {"", "gpt-4"},
                   search_endpoint : {"", "https://env.example"},
                   search_index : {"", "env-index"},
                   search_api_key : {"", "test-api-key"}]
    /\ validation = NoValidation
    /\ IdleParse /\ IdleFormat /\ IdleMain

DoLoad ==
    /\ pc = "load_ready"
    /\ config' = LoadConfiguration(settings, environ)
    /\ pc' = "load_done"
    /\ UNCHANGED <<settings, environ, validation, parseVars, formatVars, mainVars>>

DoValidate ==
    /\ pc = "validate_ready"
    /\ validation' = ValidateConfiguration(config)
    /\ pc' = "validate_done"
    /\ UNCHANGED <<settings, environ, config, parseVars, formatVars, mainVars>>

InitConfig == InitLoad \/ InitValidate
NextConfig == DoLoad \/ DoValidate
SpecConfig == InitConfig /\ [][NextConfig]_vars

(***************************************************************************)
(* The field table of the specification: field -> settings key,            *)
(* environment key, default.                                               *)
(***************************************************************************)

Fields ==
    {"azure_openai_endpoint", "chat_deployment", "search_endpoint",
     "search_index", "search_api_key"}

TableSettingsKey(f) ==
    CASE f = "azure_openai_endpoint" -> "AzureOpenAI:Endpoint"
      [] f = "chat_deployment"       -> "AzureOpenAI:ChatDeployment"
      [] f = "search_endpoint"       -> "AzureSearch:Endpoint"
      [] f = "search_index"          -> "AzureSearch:IndexName"
      [] f = "search_api_key"        -> "AzureSearch:ApiKey"

TableEnvKey(f) ==
    CASE f = "azure_openai_endpoint" -> "AZURE_OPENAI_ENDPOINT"
      [] f = "chat_deployment"       -> "AZURE_OPENAI_CHAT_DEPLOYMENT"
      [] f = "search_endpoint"       -> "AZURE_SEARCH_ENDPOINT"
      [] f = "search_index"          -> "AZURE_SEARCH_INDEX_NAME"
      [] f = "search_api_key"        -> "AZURE_SEARCH_API_KEY"

TableDefault(f) == IF f = "chat_deployment" THEN "gpt-4" ELSE ""

\* The mapping without one key.
Without(d, key) == [k \in (DOMAIN d) \ {key} |-> d[k]]

SettingsNonEmpty(f) ==
    /\ TableSettingsKey(f) \in DOMAIN settings
    /\ settings[TableSettingsKey(f)] # ""

EnvNonEmpty(f) ==
    /\ TableEnvKey(f) \in DOMAIN environ
    /\ environ[TableEnvKey(f)] # ""

(***************************************************************************)
(* C1.  Override property of load_configuration: a field whose settings    *)
(* key holds a non-empty value resolves to that value whatever the         *)
(* environment holds, and the entry of one field in the settings map does  *)
(* not change how any other field resolves.                                *)
(***************************************************************************)
C1_Override ==
    pc = "load_done" =>
        \A f \in Fields :
            /\ SettingsNonEmpty(f) => config[f] = settings[TableSettingsKey(f)]
            /\ \A g \in Fields \ {f} :
                   LoadConfiguration(Without(settings, TableSettingsKey(g)),
                                     environ)[f] = config[f]

\* A settings value wins over a different, non-empty environment value while
\* another field is resolved from the environment.
C1_Witness ==
    /\ pc = "load_done"
    /\ SettingsNonEmpty("azure_openai_endpoint")
    /\ EnvNonEmpty("azure_openai_endpoint")
    /\ environ["AZURE_OPENAI_ENDPOINT"] # settings["AzureOpenAI:Endpoint"]
    /\ config.azure_openai_endpoint = settings["AzureOpenAI:Endpoint"]
    /\ ~SettingsNonEmpty("search_endpoint")
    /\ EnvNonEmpty("search_endpoint")
    /\ config.search_endpoint = environ["AZURE_SEARCH_ENDPOINT"]

(***************************************************************************)
(* C2.  Environment fallback and defaults of load_configuration: each of   *)
(* the five fields whose settings value is absent or empty resolves to     *)
(* the value of its environment key of the table when that is non-empty    *)
(* and to its default ("gpt-4" for the chat deployment, "" for the others) *)
(* otherwise.                                                              *)
(***************************************************************************)
C2_AsStated ==
    pc = "load_done" =>
        \A f \in Fields :
            ~SettingsNonEmpty(f) =>
                config[f] = IF EnvNonEmpty(f) THEN environ[TableEnvKey(f)]
                            ELSE TableDefault(f)

(***************************************************************************)
(* C3.  validate_configuration returns (isValid, missing) where missing    *)
(* is the subsequence of AZURE_OPENAI_ENDPOINT, AZURE_SEARCH_ENDPOINT,     *)
(* AZURE_SEARCH_INDEX_NAME whose field is empty, isValid holds iff         *)
(* missing is empty, and searchApiKey and chatDeploymentName do not        *)
(* affect the result.                                                      *)
(***************************************************************************)
RequiredNames ==
    <<"AZURE_OPENAI_ENDPOINT", "AZURE_SEARCH_ENDPOINT", "AZURE_SEARCH_INDEX_NAME">>

RequiredField(name) ==
    CASE name = "AZURE_OPENAI_ENDPOINT"   -> "azure_openai_endpoint"
      [] name = "AZURE_SEARCH_ENDPOINT"   -> "search_endpoint"
      [] name = "AZURE_SEARCH_INDEX_NAME" -> "search_index"

FieldIsEmpty(name) == config[RequiredField(name)] = ""

C3_Validate ==
    pc = "validate_done" =>
        /\ validation.missing = SelectSeq(RequiredNames, FieldIsEmpty)
        /\ validation.is_valid = (validation.missing = <<>>)
        /\ \A k \in FieldValues, d \in FieldValues :
               ValidateConfiguration([config EXCEPT !.search_api_key = k,
                                                    !.chat_deployment = d])
                   = validation

\* A configuration without API key and chat deployment whose first and
\* third required fields are empty: both are reported, in order.
C3_Witness ==
    /\ pc = "validate_done"
    /\ config.search_api_key = "" /\ config.chat_deployment = ""
    /\ config.search_endpoint # ""
    /\ validation = [is_valid |-> FALSE,
                     missing |-> <<"AZURE_OPENAI_ENDPOINT",
                                   "AZURE_SEARCH_INDEX_NAME">>]

(***************************************************************************)
(* The shape of a response document, read off the document itself.         *)
(***************************************************************************)

HasKey(d, key) == \E i \in 1..Len(d.k) : d.k[i] = key
At(d, key) == d.v[CHOOSE i \in 1..Len(d.k) : d.k[i] = key]
FieldOrNone(d, key) == IF HasKey(d, key) THEN At(d, key) ELSE PyNone

HasChoices(d) == d.t = "dict" /\ HasKey(d, ChoicesKey)
ChoicesOf(d) == At(d, ChoicesKey)
HasFirst(d) ==
    HasChoices(d) /\ ChoicesOf(d).t = "list" /\ ChoicesOf(d).v # <<>>
FirstOf(d) == ChoicesOf(d).v[1]
HasMessage(d) ==
    HasFirst(d) /\ FirstOf(d).t = "dict" /\ HasKey(FirstOf(d), MessageKey)
MessageOf(d) == At(FirstOf(d), MessageKey)
HasContext(d) ==
    HasMessage(d) /\ MessageOf(d).t = "dict" /\ HasKey(MessageOf(d), ContextKey)
ContextOf(d) == At(MessageOf(d), ContextKey)
HasCitations(d) ==
    HasContext(d) /\ ContextOf(d).t = "dict" /\ HasKey(ContextOf(d), CitationsKey)
CitationsOf(d) == At(ContextOf(d), CitationsKey)

\* A level of choices[0] -> message -> context -> citations, or an element
\* of the citations list, has the wrong type.
WrongShape(d) ==
    \/ d.t # "dict"
    \/ HasChoices(d) /\ ChoicesOf(d).t # "list"
    \/ HasFirst(d) /\ FirstOf(d).t # "dict"
    \/ HasMessage(d) /\ MessageOf(d).t # "dict"
    \/ HasContext(d) /\ ContextOf(d).t # "dict"
    \/ HasCitations(d) /\ CitationsOf(d).t # "list"
    \/ /\ HasCitations(d) /\ CitationsOf(d).t = "list"
       /\ \E i \in 1..Len(CitationsOf(d).v) : CitationsOf(d).v[i].t # "dict"

\* The choices list is empty or absent, or one of the keys message, context,
\* citations is absent where the levels above it are well-shaped.
LevelAbsent(d) ==
    \/ d.t = "dict" /\ ~HasKey(d, ChoicesKey)
    \/ HasChoices(d) /\ ChoicesOf(d) = PyList(<<>>)
    \/ HasFirst(d) /\ FirstOf(d).t = "dict" /\ ~HasKey(FirstOf(d), MessageKey)
    \/ HasMessage(d) /\ MessageOf(d).t = "dict"
           /\ ~HasKey(MessageOf(d), ContextKey)
    \/ HasContext(d) /\ ContextOf(d).t = "dict"
           /\ ~HasKey(ContextOf(d), CitationsKey)

\* choices[0].message.context.citations is a list of objects.
CitationsWellFormed(d) ==
    /\ HasCitations(d) /\ CitationsOf(d).t = "list"
    /\ \A i \in 1..Len(CitationsOf(d).v) : CitationsOf(d).v[i].t = "dict"

(***************************************************************************)
(* C4.  parse_citations returns the empty sequence and raises nothing for  *)
(* every well-formed document in which the top level, choices, the first   *)
(* choice, message, context, the citations list or a citation element has  *)
(* the wrong type.                                                         *)
(***************************************************************************)
C4_WrongShapeIsEmpty ==
    (pc = "parse_done" /\ input_kind = "document" /\ WrongShape(document))
        => parse_result = Returns(<<>>)

(***************************************************************************)
(* C5.  parse_citations returns the empty sequence and raises nothing for  *)
(* None, the empty string, text that is not parseable, a document whose    *)
(* choices list is empty or absent and a document in which one of the      *)
(* keys message, context, citations is absent.                             *)
(***************************************************************************)
C5_EmptyInputs ==
    (/\ pc = "parse_done"
     /\ \/ input_kind \in {"none", "empty", "malformed"}
        \/ input_kind = "document" /\ LevelAbsent(document))
        => parse_result = Returns(<<>>)

(***************************************************************************)
(* C6.  For a document whose choices[0].message.context.citations is a     *)
(* list of n objects, parse_citations returns n Citations in the order of  *)
(* the list, the i-th holding the title, filepath and content of the i-th  *)
(* element and None for a field the element lacks; other choices are       *)
(* ignored.                                                                *)
(***************************************************************************)
ExpectedCitations(d) ==
    [i \in 1..Len(CitationsOf(d).v) |->
        [title     |-> FieldOrNone(CitationsOf(d).v[i], TitleKey),
         file_path |-> FieldOrNone(CitationsOf(d).v[i], FilepathKey),
         content   |-> FieldOrNone(CitationsOf(d).v[i], ContentKey)]]

C6_Extracts ==
    (pc = "parse_done" /\ input_kind = "document" /\ CitationsWellFormed(document))
        => parse_result = Returns(ExpectedCitations(document))

(***************************************************************************)
(* C7.  truncate_content(content, maxLength) returns "" for None or empty  *)
(* content, the content itself when its length is at most maxLength, and   *)
(* otherwise its first maxLength characters followed by "...", of length   *)
(* maxLength + 3; an omitted maxLength is 150.                             *)
(***************************************************************************)
C7_Truncate ==
    pc = "truncate_done" =>
        LET m == IF max_length = <<>> THEN 150 ELSE max_length[1]
        IN  IF content_arg.t = "none" \/ content_arg.s = <<>>
            THEN text_result = PyStr(<<>>)
            ELSE IF Len(content_arg.s) <= m
            THEN text_result = content_arg
            ELSE /\ text_result =
                        PyStr(SubSeq(content_arg.s, 1, m) \o <<".", ".", ".">>)
                 /\ Len(text_result.s) = m + 3

\* Content one character longer than the default limit is cut to 150
\* characters and the ellipsis.
C7_Witness ==
    /\ pc = "truncate_done"
    /\ max_length = <<>>
    /\ Len(content_arg.s) = 151
    /\ Len(text_result.s) = 153
    /\ SubSeq(text_result.s, 151, 153) = <<".", ".", ".">>

(***************************************************************************)
(* C8.  format_citation(citation, ordinal) returns "  [ordinal] T" where   *)
(* T is the title if non-empty, else the source path if non-empty, else    *)
(* "Document ordinal"; non-empty content adds a newline, six spaces and    *)
(* truncate_content(content, 150); otherwise the first line is all.        *)
(***************************************************************************)
NonEmptyStr(x) == x.t = "str" /\ x.s # <<>>

C8_Format ==
    pc = "format_done" =>
        LET shown == IF NonEmptyStr(citation.title) THEN citation.title.s
                     ELSE IF NonEmptyStr(citation.file_path)
                          THEN citation.file_path.s
                     ELSE <<"D", "o", "c", "u", "m", "e", "n", "t", " ">>
                              \o IntToStr(number)
            first == <<" ", " ", "[">> \o IntToStr(number) \o <<"]", " ">> \o shown
        IN  IF NonEmptyStr(citation.content)
            THEN text_result =
                    PyStr(first \o <<"\n">> \o <<" ", " ", " ", " ", " ", " ">>
                              \o TruncateContent(citation.content, 150).s)
            ELSE text_result = PyStr(first)

\* A citation without title and path and with long content, at a two-digit
\* ordinal: the ordinal names it and the content is cut.
C8_Witness ==
    /\ pc = "format_done"
    /\ citation.title.t = "none" /\ citation.file_path = PyStr(<<>>)
    /\ number = 10
    /\ Len(citation.content.s) = 152
    /\ SubSeq(text_result.s, 1, 18) =
          <<" ", " ", "[", "1", "0", "]", " ",
            "D", "o", "c", "u", "m", "e", "n", "t", " ", "1", "0">>
    /\ Len(text_result.s) = 18 + 7 + 153

(***************************************************************************)
(* C9.  Citation.displayTitle is the title if non-empty, else the source   *)
(* path if non-empty, else "Unknown Document"; an empty title counts as    *)
(* absent.                                                                 *)
(***************************************************************************)
C9_DisplayTitle ==
    pc = "title_done" =>
        text_result =
            IF NonEmptyStr(citation.title) THEN citation.title
            ELSE IF NonEmptyStr(citation.file_path) THEN citation.file_path
            ELSE PyStr(<<"U", "n", "k", "n", "o", "w", "n", " ",
                         "D", "o", "c", "u", "m", "e", "n", "t">>)

\* An empty title falls through to the path.
C9_Witness ==
    /\ pc = "title_done"
    /\ citation.title = PyStr(<<>>)
    /\ NonEmptyStr(citation.file_path)
    /\ text_result = citation.file_path


\* main has built its data source: MainSetup has run.
DataSourceBuilt ==
    pc \in {"main_mode", "cli_query", "prompt", "send_query", "main_exit"}
        /\ data_source # NoDataSource

\* The authentication the data source is stated to carry.
StatedAuthentication(c) ==
    IF c.search_api_key # ""
    THEN [type |-> "api_key", key |-> c.search_api_key]
    ELSE [type |-> "system_assigned_managed_identity"]

(***************************************************************************)
(* C10.  The data source main builds from a configuration has type         *)
(* "azure_search", parameters endpoint = searchEndpoint and index_name =   *)
(* searchIndexName, and authentication { type: "api_key", key:             *)
(* searchApiKey } when searchApiKey is non-empty and                       *)
(* { type: "system_assigned_managed_identity" } with no key when it is     *)
(* empty.                                                                  *)
(***************************************************************************)
C10_DataSourceAsStated ==
    DataSourceBuilt =>
        data_source =
            [type |-> "azure_search",
             parameters |-> [endpoint |-> config.search_endpoint,
                             index_name |-> config.search_index,
                             authentication |-> StatedAuthentication(config)]]

\* validate_configuration has returned in this run.
Validated ==
    pc \in {"main_valid", "main_mode", "cli_query", "prompt", "send_query",
            "main_exit"}

(***************************************************************************)
(* C11.  A chat request is sent only after validate_configuration has      *)
(* returned isValid = true for the loaded configuration; when validation   *)
(* reports missing settings, the run lists them and ends: no request is    *)
(* sent and no question is read.                                           *)
(***************************************************************************)
C11_ValidatedBeforeRequest ==
    /\ requests # <<>> =>
           /\ Validated
           /\ config = LoadConfiguration(settings, environ)
           /\ validation = ValidateConfiguration(config)
           /\ validation.is_valid
    /\ (Validated /\ ~validation.is_valid) =>
           /\ pc = "main_exit"
           /\ requests = <<>>
           /\ asked = 0 /\ query = <<>>
           /\ conversation_history = <<>>
           /\ output = <<Printed("banner", <<>>, ""),
                         Printed("configure", <<>>, "")>>
                            \o MissingLines(validation.missing)

\* A run with two settings missing has listed both and ended.
C11_Witness ==
    /\ pc = "main_exit"
    /\ validation = [is_valid |-> FALSE,
                     missing |-> <<"AZURE_OPENAI_ENDPOINT",
                                   "AZURE_SEARCH_INDEX_NAME">>]
    /\ Len(output) = 4
    /\ output[3].name = "AZURE_OPENAI_ENDPOINT"
    /\ output[4].name = "AZURE_SEARCH_INDEX_NAME"
    /\ requests = <<>>

\* The position of the last answer printed.
LastAnswer ==
    CHOOSE a \in 1..Len(output) :
        /\ output[a].kind = "answer"
        /\ \A b \in (a + 1)..Len(output) : output[b].kind # "answer"

\* The text that the prints of kind k after the last answer put on the
\* screen: print ends each of them with a newline.
RECURSIVE ScreenText(_, _)
ScreenText(lines, k) ==
    IF lines = <<>> THEN <<>>
    ELSE (IF Head(lines).kind = k THEN Head(lines).text \o <<"\n">> ELSE <<>>)
             \o ScreenText(Tail(lines), k)

\* The citations of the first choice of a response.
ResponseCitationsOf(message) ==
    LET context == GetAttr(message, ContextKey)
        items == GetAttr(context, CitationsKey)
    IN  IF items.t = "list" THEN items.v ELSE <<>>

\* The Citation record of a response's citation object.
AsCitation(obj) ==
    Citation(GetAttr(obj, TitleKey), GetAttr(obj, FilepathKey),
             GetAttr(obj, ContentKey))

\* format_citation(citation_i, i) for each citation from the i-th on, each
\* followed by a newline.
RECURSIVE FormattedText(_, _)
FormattedText(items, i) ==
    IF i > Len(items) THEN <<>>
    ELSE FormatCitation(AsCitation(items[i]), i).s \o <<"\n">>
             \o FormattedText(items, i + 1)

(***************************************************************************)
(* C12.  For every successful response the answer text is displayed first  *)
(* and then the citations of the response's first choice, in their order,  *)
(* with ordinals 1, 2, ...; what is displayed for the i-th citation is     *)
(* format_citation(citation_i, i).                                         *)
(***************************************************************************)
C12_DisplayIsFormatCitation ==
    response # PyNone =>
        /\ \E a \in 1..Len(output) : output[a].kind = "answer"
        /\ output[LastAnswer].text = GetAttr(response, ContentKey).s
        /\ \A b \in 1..Len(output) :
               output[b].kind = "line" =>
                   \E a \in 1..(b - 1) : output[a].kind = "answer"
        /\ ScreenText(SubSeq(output, LastAnswer + 1, Len(output)), "line")
               = FormattedText(ResponseCitationsOf(response), 1)

\* A response with two citations has been displayed: the first has only a
\* file path to show, the second every field.
C12_Witness ==
    /\ response # PyNone
    /\ pc = "prompt"
    /\ Len(ResponseCitationsOf(response)) = 2
    /\ ResponseCitationsOf(response)[1] = ResponseCitations[3]
    /\ ResponseCitationsOf(response)[2] = ResponseCitations[1]
    /\ ScreenText(SubSeq(output, LastAnswer + 1, Len(output)), "line")
           = <<" ", " ", "[", "1", "]", " ", "b", ".", "m", "d", "\n",
               " ", " ", "[", "2", "]", " ", "P", "l", "a", "n", "\n",
               " ", " ", " ", " ", " ", " ", "C", "o", "v", "e", "r", "\n">>

\* The positions of the retrieval-augmented requests among the requests.
RagRequests == {i \in 1..Len(requests) : requests[i].data_sources # <<>>}

\* The positions of the prints of one kind.
PrintsOf(kind) == {i \in 1..Len(output) : output[i].kind = kind}

\* The questions read so far: the one of the command line once main has
\* joined it, or those typed at the prompt.
QuestionsRead ==
    IF argv # <<>>
    THEN (IF pc \in {"main_start", "main_loaded", "main_valid", "main_mode"}
             \/ ~validation.is_valid
          THEN 0 ELSE 1)
    ELSE asked

\* The last input ends the interactive loop.
EndsLoop(typed) == typed = <<>> \/ StrLower(typed) = <<"e", "x", "i", "t">>

(***************************************************************************)
(* C13.  A failure while sending a question is caught and reported and     *)
(* never retried: at most one retrieval-augmented request is sent per      *)
(* question read, the failure does not leave send_query_async, and the     *)
(* interactive loop goes on to the next question; it ends only when the    *)
(* input is empty or is "exit" in any letter case.                         *)
(***************************************************************************)
C13_FailureReportedNotRetried ==
    /\ Cardinality(RagRequests) <= QuestionsRead
    /\ \A i, j \in RagRequests :
           i < j => Len(requests[i].messages) < Len(requests[j].messages)
    /\ Cardinality(RagRequests) + Cardinality({i \in PrintsOf("error") :
                                                 output[i].name = "client_error"})
           = Cardinality(PrintsOf("answer")) + Cardinality(PrintsOf("error"))
    /\ (Len(output) >= 2 /\ output[Len(output) - 1].kind \in {"error", "inner"}) =>
           /\ IF argv = <<>> THEN pc \in {"prompt", "send_query"}
              ELSE pc = "main_exit"
           /\ response = PyNone
    /\ (argv = <<>> /\ pc = "send_query") => ~EndsLoop(query)
    /\ (argv = <<>> /\ pc = "main_exit" /\ validation.is_valid) =>
           /\ EndsLoop(query)
           /\ output[Len(output)].kind = "goodbye"

\* The first question of an interactive run failed in transport, was
\* reported, and the loop has read a second question.
C13_Witness ==
    /\ argv = <<>>
    /\ pc = "send_query"
    /\ asked = 2
    /\ Cardinality(RagRequests) = 1
    /\ Len(output) = 5
    /\ output[3] = Printed("error", <<>>, "request_error")
    /\ output[4] = Printed("inner", <<>>, "OSError")
    /\ Len(conversation_history) = 2

\* a is an initial part of b.
IsPrefix(a, b) == Len(a) <= Len(b) /\ SubSeq(b, 1, Len(a)) = a

\* The positions of the history entries of one role.
EntriesOf(role) ==
    {i \in 1..Len(conversation_history) : conversation_history[i].role = role}

\* The history is empty before main builds it and starts with the system
\* message from then on; every other entry is a user or an assistant entry.
HistoryStartsWithSystem ==
    conversation_history # <<>> =>
        /\ conversation_history[1] = ChatMessage("system", SystemPrompt)
        /\ \A i \in 2..Len(conversation_history) :
               conversation_history[i].role \in {"user", "assistant"}

\* Every retrieval-augmented request was sent with the history as it then
\* was, ending in the user entry of its question; nothing of it has been
\* removed or changed since.
UserEntryBeforeRequest ==
    \A r \in RagRequests :
        /\ IsPrefix(requests[r].messages, conversation_history)
        /\ requests[r].messages[Len(requests[r].messages)].role = "user"

\* There is one assistant entry per answer received, and it directly follows
\* the user entry its request ended with.
AssistantAfterSuccess ==
    /\ Cardinality(EntriesOf("assistant")) = Cardinality(PrintsOf("answer"))
    /\ \A i \in EntriesOf("assistant") :
           /\ i > 2
           /\ conversation_history[i - 1].role = "user"
           /\ \E r \in RagRequests : Len(requests[r].messages) = i - 1

\* After the system entry, user and assistant entries strictly alternate.
StrictlyAlternates ==
    \A i \in 2..Len(conversation_history) :
        conversation_history[i].role = IF i % 2 = 0 THEN "user" ELSE "assistant"

\* One step keeps every entry of the history and leaves it well-formed.
HistoryStep ==
    /\ IsPrefix(conversation_history, conversation_history')
    /\ HistoryStartsWithSystem'
    /\ UserEntryBeforeRequest'
    /\ AssistantAfterSuccess'

(***************************************************************************)
(* C14, as stated.  After any sequence of successful and failed questions  *)
(* the history is append-only, starts with the system message, gets the    *)
(* user entry of a question before the request is sent and an assistant    *)
(* entry only after a successful response, and user and assistant entries  *)
(* strictly alternate after the system entry.                              *)
(***************************************************************************)
C14_AsStated == [][HistoryStep /\ StrictlyAlternates']_vars

(***************************************************************************)
(* C14.  After any sequence of successful and failed questions the history *)
(* is append-only and starts with the system message; each question        *)
(* appends its user entry before the request is sent, an assistant entry   *)
(* is appended only after a successful response, and every assistant entry *)
(* directly follows the user entry of its question.  A failed question     *)
(* leaves its user entry without an assistant entry.                       *)
(***************************************************************************)
C14_History == [][HistoryStep]_vars

\* A failed question followed by an answered one: two user entries in a
\* row, then the assistant entry.
C14_Witness ==
    /\ pc = "prompt"
    /\ Len(conversation_history) = 4
    /\ conversation_history[1].role = "system"
    /\ conversation_history[2].role = "user"
    /\ conversation_history[3].role = "user"
    /\ conversation_history[4] = ChatMessage("assistant", <<"O", "K">>)
    /\ Cardinality(RagRequests) = 2

====
